---- MODULE Spec2Model ----
(***************************************************************************)
(* Streamlit_dashboard.py: one render pass of the retail dashboard.        *)
(*                                                                         *)
(* The script runs top to bottom.  For each of the eight visualization     *)
(* slots it calls run_athena_query (submit, poll, fetch) and, when the     *)
(* returned DataFrame is not empty, draws the slot's widgets.  Nothing in  *)
(* the script catches an exception, so one raised inside run_athena_query  *)
(* ends the pass (pc = "aborted").                                         *)
(*                                                                         *)
(* The query service, the object store and the network are the             *)
(* environment: every reply they can give is a nondeterministic choice     *)
(* inside the action that makes the call.                                  *)
(***************************************************************************)
EXTENDS Integers, Sequences, FiniteSets

(* ---------------------------------------------------------------- bounds *)

\* The service answers a non-terminal state at most MaxRunning times per query.
MaxRunning == 2

\* A result file holds at most MaxRows data rows.
MaxRows == 2

(* ----------------------------------------------------- program constants *)

\* S3_OUTPUT, the staging prefix handed to every submission.
S3_OUTPUT == "s3://dku-project/Athena Output/"

\* The slots in script order (df_daily, df_payment, ... df_features).
Catalog ==
  << "daily", "payment", "hourly", "region", "city", "stores", "top_cust", "features" >>

NumSlots == Len(Catalog)

Slots == 1 .. NumSlots

\* The columns each slot's SELECT names: the header row of its result file.
Columns(i) ==
  CASE i = 1 -> {"day", "revenue"}
    [] i = 2 -> {"payment_method", "revenue"}
    [] i = 3 -> {"hour_of_day", "total_transactions"}
    [] i = 4 -> {"region", "revenue"}
    [] i = 5 -> {"city", "customer_count"}
    [] i = 6 -> {"store_id", "revenue"}
    [] i = 7 -> {"customer_id", "revenue_30d"}
    [] OTHER -> {"customer_id", "orders", "total_spend", "avg_order", "recency_days"}

\* The st.* calls inside each slot's `if not df.empty:` block, in order.
Widgets(i) ==
  CASE i = 1 -> << "line_chart" >>
    [] i \in 2 .. 5 -> << "bar_chart" >>
    [] i = 6 -> << "dataframe" >>
    [] i = 7 -> << "table" >>
    [] OTHER -> << "dataframe", "caption", "scatter_chart" >>

\* The columns a slot converts before drawing (pd.to_datetime on 'day').
Normalizations(i) == IF i = 1 THEN {"day"} ELSE {}

(* ------------------------------------------------------- the environment *)

\* The result file the service wrote under the staging prefix.
ResultFile == "s3://dku-project/Athena Output/<QueryExecutionId>.csv"

Locations == {S3_OUTPUT, ResultFile}

NonTerminalStates == {"QUEUED", "RUNNING"}

ServiceTerminalStates == {"SUCCEEDED", "FAILED", "CANCELLED"}

\* The key StateChangeReason is optional in Status.
Absent == "<absent>"

Reasons == {"SYNTAX_ERROR: line 1", "Query cancelled by user"}

NoStats == [State |-> "<none>", OutputLocation |-> "<none>", StateChangeReason |-> Absent]

\* What get_query_execution can return.  Only what the code reads is kept:
\* Status.State, Status.StateChangeReason, ResultConfiguration.OutputLocation.
\* StateChangeReason is optional whatever the state.  The service names the
\* written file only in a SUCCEEDED response; it may also echo the staging
\* prefix there.
Responses ==
  [State : NonTerminalStates, OutputLocation : {S3_OUTPUT},
   StateChangeReason : Reasons \cup {Absent}]
    \cup [State : {"SUCCEEDED"}, OutputLocation : Locations, StateChangeReason : {Absent}]
    \cup [State : {"FAILED", "CANCELLED"}, OutputLocation : {S3_OUTPUT},
          StateChangeReason : Reasons \cup {Absent}]

\* What the object store holds at the fetched location.
Files ==
  [kind : {"missing", "malformed"}, rows : {0}] \cup [kind : {"csv"}, rows : 0 .. MaxRows]

NoFile == [kind |-> "<none>", rows |-> 0]

(* ------------------------------------------------------------ DataFrames *)

NoDf == [columns |-> {}, rows |-> -1]

\* pd.DataFrame()
EmptyDataFrame == [columns |-> {}, rows |-> 0]

\* DataFrame.empty: some axis has length 0.
IsEmpty(d) == d.columns = {} \/ d.rows = 0

\* What a slot's df_* variable holds once run_athena_query has returned.
DfKind(d) == IF IsEmpty(d) THEN "norows" ELSE "rows"

(* ------------------------------------------------------------------ state *)

VARIABLES
  slot,                \* the slot the script is executing, NumSlots + 1 after the last
  pc,                  \* "call", "poll", "sleep", "branch", "returned", "aborted", "done"
  query_execution_id,  \* run_athena_query: the handle, 0 before the submission
  stats,               \* run_athena_query: the last get_query_execution response
  df,                  \* the DataFrame run_athena_query returned
  fault,               \* the exception that ended the pass, "none" otherwise
  submitReply,         \* the service's reply to this call's submission
  checks,              \* get_query_execution calls issued by this call
  running,             \* non-terminal answers received by this call
  terminalSeen,        \* a terminal answer was received by this call
  fetches,             \* locations this call handed to pd.read_csv
  fileRead,            \* what the object store held there
  errors,              \* st.error messages of this call
  submitted,           \* the slots whose query was sent to the service, in order
  inflight,            \* handles the service accepted and has not reported terminal
  result,              \* per slot: "pending", then what its df_* holds: "rows", "norows"
  rendered,            \* per slot: the st.* widget calls made for it
  normalized,          \* per slot: the columns converted for it
  failedQueries        \* queries of this pass the service reported FAILED

locals ==
  << query_execution_id, stats, df, submitReply, checks, running, terminalSeen,
     fetches, fileRead, errors >>

pass == << submitted, inflight, result, rendered, normalized, failedQueries >>

vars == << slot, pc, fault, locals, pass >>

\* A fresh activation of run_athena_query.
FreshLocals ==
  /\ query_execution_id' = 0
  /\ stats' = NoStats
  /\ df' = NoDf
  /\ submitReply' = "none"
  /\ checks' = 0
  /\ running' = 0
  /\ terminalSeen' = FALSE
  /\ fetches' = << >>
  /\ fileRead' = NoFile
  /\ errors' = << >>

Init ==
  /\ slot = 1
  /\ pc = "call"
  /\ fault = "none"
  /\ query_execution_id = 0
  /\ stats = NoStats
  /\ df = NoDf
  /\ submitReply = "none"
  /\ checks = 0
  /\ running = 0
  /\ terminalSeen = FALSE
  /\ fetches = << >>
  /\ fileRead = NoFile
  /\ errors = << >>
  /\ submitted = << >>
  /\ inflight = {}
  /\ result = [i \in Slots |-> "pending"]
  /\ rendered = [i \in Slots |-> << >>]
  /\ normalized = [i \in Slots |-> {}]
  /\ failedQueries = 0

\* An exception nobody catches: the script stops where it is.
Raise(e) ==
  /\ pc' = "aborted"
  /\ fault' = e

(* ------------------------------------------------------ run_athena_query *)

\* client.start_query_execution(...); response['QueryExecutionId']
StartQueryExecution ==
  /\ pc = "call"
  /\ slot \in Slots
  /\ submitted' = Append(submitted, Catalog[slot])
  /\ \E reply \in {"accepted", "rejected"} :
       /\ submitReply' = reply
       /\ IF reply = "accepted"
            THEN /\ query_execution_id' = Len(submitted')
                 /\ inflight' = inflight \cup {Len(submitted')}
                 /\ pc' = "poll"
                 /\ UNCHANGED fault
            ELSE /\ Raise("ClientError")
                 /\ UNCHANGED << query_execution_id, inflight >>
  /\ UNCHANGED << slot, stats, df, checks, running, terminalSeen, fetches, fileRead,
                  errors, result, rendered, normalized, failedQueries >>

\* Faulty variant: SUCCEEDED is left out of the list of states that end the loop.
LoopExitOnFailureOnly(status) == status \in {"FAILED", "CANCELLED"}

\* Faulty variant: the loop is left after the first status check, whatever it said.
LoopExitImmediately(status) == TRUE

\* `if status in ['SUCCEEDED', 'FAILED', 'CANCELLED']: break`
LoopExit(status) == status \in {"SUCCEEDED", "FAILED", "CANCELLED"}

\* The answers the service can give to the next status check: a terminal state
\* is final, and a query stays non-terminal for at most MaxRunning checks.
Answers ==
  IF stats.State \in ServiceTerminalStates
    THEN {stats}
    ELSE {r \in Responses : r.State \in NonTerminalStates => running < MaxRunning}

\* stats = client.get_query_execution(...); status = stats[...]['State']
GetQueryExecution ==
  /\ pc = "poll"
  /\ checks' = checks + 1
  /\ \/ \E r \in Answers :
          /\ stats' = r
          /\ running' = IF r.State \in NonTerminalStates THEN running + 1 ELSE running
          /\ terminalSeen' = (r.State \in ServiceTerminalStates)
          /\ inflight' =
               IF r.State \in ServiceTerminalStates
                 THEN inflight \ {query_execution_id}
                 ELSE inflight
          /\ failedQueries' =
               IF r.State = "FAILED" /\ ~terminalSeen
                 THEN failedQueries + 1
                 ELSE failedQueries
          /\ pc' = IF LoopExit(r.State) THEN "branch" ELSE "sleep"
          /\ UNCHANGED fault
     \/ /\ Raise("ClientError")
        /\ UNCHANGED << stats, running, terminalSeen, inflight, failedQueries >>
  /\ UNCHANGED << slot, query_execution_id, df, submitReply, fetches, fileRead, errors,
                  submitted, result, rendered, normalized >>

\* Faulty variant: the loop gives up after one wait instead of checking again.
SleepThenGiveUp ==
  /\ pc = "sleep"
  /\ pc' = "branch"
  /\ UNCHANGED << slot, fault, locals, pass >>

\* time.sleep(1), then the next iteration of `while True`
Sleep ==
  /\ pc = "sleep"
  /\ pc' = "poll"
  /\ UNCHANGED << slot, fault, locals, pass >>

\* Faulty variant: the file is looked for at the location the request named.
ResultPathFromRequest(st, s3_output) == s3_output

\* result_s3_path = stats['QueryExecution']['ResultConfiguration']['OutputLocation']
ResultPath(st, s3_output) == st.OutputLocation

\* `if status == 'SUCCEEDED':`
FetchBranch(status) == status = "SUCCEEDED"

\* return pd.read_csv(result_s3_path)
ReadCsv ==
  /\ pc = "branch"
  /\ FetchBranch(stats.State)
  /\ fetches' = Append(fetches, ResultPath(stats, S3_OUTPUT))
  /\ \E f \in Files :
       /\ fileRead' = f
       /\ IF f.kind = "csv"
            THEN /\ df' = [columns |-> Columns(slot), rows |-> f.rows]
                 /\ pc' = "returned"
                 /\ UNCHANGED fault
            ELSE /\ Raise("ReadError")
                 /\ UNCHANGED df
  /\ UNCHANGED << slot, query_execution_id, stats, submitReply, checks, running,
                  terminalSeen, errors, pass >>

\* f"Query Failed: {stats['QueryExecution']['Status']['StateChangeReason']}"
FailureMessage(st) == [prefix |-> "Query Failed: ", reason |-> st.StateChangeReason]

\* st.error(...); return pd.DataFrame()
QueryFailed ==
  /\ pc = "branch"
  /\ ~FetchBranch(stats.State)
  /\ IF stats.StateChangeReason = Absent
       THEN /\ Raise("KeyError")
            /\ UNCHANGED << errors, df >>
       ELSE /\ errors' = Append(errors, FailureMessage(stats))
            /\ df' = EmptyDataFrame
            /\ pc' = "returned"
            /\ UNCHANGED fault
  /\ UNCHANGED << slot, query_execution_id, stats, submitReply, checks, running,
                  terminalSeen, fetches, fileRead, pass >>

(* ------------------------------------------------------ dashboard layout *)

\* Faulty variant: the test looks at the header only (`if len(df_x.columns):`).
ShouldRenderIfColumns(d) == d.columns # {}

\* `if not df_x.empty:`
ShouldRender(d) == ~IsEmpty(d)

\* Faulty variant: a slot whose call came back with pd.DataFrame() is run again.
SlotAfterRetry(i, d) == IF d = EmptyDataFrame THEN i ELSE i + 1

\* The statement after a slot's block is the next slot's block.
SlotAfter(i, d) == i + 1

\* df_x = run_athena_query(...); if not df_x.empty: <widgets>
Render ==
  /\ pc = "returned"
  /\ result' = [result EXCEPT ![slot] = DfKind(df)]
  /\ IF ShouldRender(df)
       THEN /\ normalized' = [normalized EXCEPT ![slot] = Normalizations(slot)]
            /\ rendered' = [rendered EXCEPT ![slot] = Widgets(slot)]
       ELSE UNCHANGED << normalized, rendered >>
  /\ slot' = SlotAfter(slot, df)
  /\ pc' = IF slot' \in Slots THEN "call" ELSE "done"
  /\ FreshLocals
  /\ UNCHANGED << fault, submitted, inflight, failedQueries >>

Next ==
  \/ StartQueryExecution
  \/ GetQueryExecution
  \/ Sleep
  \/ ReadCsv
  \/ QueryFailed
  \/ Render

Spec == Init /\ [][Next]_vars

\* The interpreter always executes the next statement, and every call to the
\* service, the store or the clock comes back (with a value or an exception).
FairSpec == Spec /\ WF_vars(Next)

(* ------------------------------------------------------------ properties *)

PassEnded == pc \in {"done", "aborted"}

CallEnded == pc \in {"returned", "aborted"}

\* C1: when the service answers non-terminal to the first k status checks and
\* SUCCEEDED to check k+1, the call has issued exactly k+1 status checks and,
\* once it has ended, exactly one fetch; a fetch happens only after a terminal
\* status was observed, and no status check is issued after one was observed.
C1_PollThenFetch ==
  /\ [](terminalSeen /\ stats.State = "SUCCEEDED" =>
          /\ checks = running + 1
          /\ pc = "branch" => fetches = << >>
          /\ CallEnded => Len(fetches) = 1)
  /\ [][fetches' # fetches /\ fetches' # << >> => terminalSeen]_vars
  /\ [][checks' > checks => ~terminalSeen]_vars

C1_Witness ==
  /\ pc = "returned"
  /\ stats.State = "SUCCEEDED"
  /\ running = MaxRunning
  /\ checks = MaxRunning + 1
  /\ Len(fetches) = 1

\* C2: in a pass where exactly one slot's query ends FAILED and every other
\* slot's query succeeds with rows (a slot the pass never reached has no other
\* outcome), each of the other seven slots is submitted and rendered.
C2_FailureIsolation ==
  \A j \in Slots :
    LET failedAt ==
          /\ failedQueries = 1
          /\ \/ result[j] = "norows"
             \/ pc = "aborted" /\ slot = j /\ terminalSeen /\ stats.State = "FAILED"
        othersSucceed ==
          \A i \in Slots \ {j} :
            \/ result[i] = "rows"
            \/ result[i] = "pending" /\ pc = "aborted" /\ slot = j /\ i > j
    IN  PassEnded /\ failedAt /\ othersSucceed =>
          \A i \in Slots \ {j} :
            /\ \E n \in 1 .. Len(submitted) : submitted[n] = Catalog[i]
            /\ rendered[i] = Widgets(i)

\* C3: when the service rejects the submission, run_athena_query does not
\* raise: it reports the failure, returns an empty result with no status check
\* issued, and the pass goes on.
C3_SubmissionRejected ==
  submitReply = "rejected" =>
    /\ pc = "returned"
    /\ fault = "none"
    /\ checks = 0
    /\ Len(errors) = 1
    /\ df = EmptyDataFrame

\* C4: once a call that observed FAILED or CANCELLED has ended, it has
\* returned (not raised) an empty result, reported exactly one message, which
\* carries the service's reason when there is one, and fetched nothing.
C4_FailPath ==
  terminalSeen /\ stats.State \in {"FAILED", "CANCELLED"} /\ CallEnded =>
    /\ pc = "returned"
    /\ fault = "none"
    /\ Len(errors) = 1
    /\ stats.StateChangeReason # Absent => errors[1].reason = stats.StateChangeReason
    /\ df = EmptyDataFrame
    /\ fetches = << >>

\* C5: when the query SUCCEEDED but the result file is missing or unparseable,
\* the failure stays in that slot: the pass is not stopped.
C5_FetchErrorContained ==
  terminalSeen /\ stats.State = "SUCCEEDED" /\ fileRead.kind \in {"missing", "malformed"} =>
    /\ pc # "aborted"
    /\ fault = "none"

\* C6: a slot whose result has zero rows (a header-only file, or the empty
\* result of the fail path) gets no widget call and no column conversion, and
\* the pass goes on; a slot is drawn only from a non-empty result fetched
\* after its query was observed SUCCEEDED.
C6_EmptySkip ==
  /\ [](\A i \in Slots :
          /\ result[i] = "norows" => rendered[i] = << >> /\ normalized[i] = {}
          /\ rendered[i] # << >> \/ normalized[i] # {} => result[i] = "rows")
  /\ [][rendered' # rendered \/ normalized' # normalized =>
          /\ terminalSeen
          /\ stats.State = "SUCCEEDED"
          /\ fileRead.kind = "csv"
          /\ fileRead.rows > 0
          /\ df.rows = fileRead.rows
          /\ pc' # "aborted"]_vars
  /\ [][pc = "returned" /\ df.rows = 0 =>
          /\ rendered' = rendered
          /\ normalized' = normalized
          /\ result'[slot] = "norows"
          /\ pc' \in {"call", "done"}]_vars

C6_Witness ==
  /\ pc = "returned"
  /\ df = [columns |-> Columns(slot), rows |-> 0]
  /\ \E i \in Slots : result[i] = "norows" /\ failedQueries > 0
  /\ \E i \in Slots : rendered[i] = Widgets(i)

\* C7: at most one query is in flight; a submission happens only when every
\* earlier slot's cycle is over; the slots are submitted in catalog order.
C7_Sequential ==
  /\ [](Cardinality(inflight) <= 1)
  /\ [](/\ Len(submitted) <= NumSlots
        /\ \A n \in 1 .. Len(submitted) : submitted[n] = Catalog[n])
  /\ [][submitted' # submitted =>
          /\ inflight = {}
          /\ Len(submitted) = slot - 1
          /\ \A i \in 1 .. slot - 1 : result[i] # "pending"]_vars

C7_Witness ==
  /\ pc = "poll"
  /\ slot = NumSlots
  /\ inflight = {NumSlots}
  /\ \E i \in Slots : result[i] = "norows"

\* C8: the location handed to the fetch is the OutputLocation of the terminal
\* (last) status response, not the staging prefix of the request.
C8_FetchesReportedLocation ==
  fetches # << >> =>
    /\ terminalSeen
    /\ stats.State = "SUCCEEDED"
    /\ fetches = << stats.OutputLocation >>

C8_Witness ==
  /\ pc = "returned"
  /\ running > 0
  /\ stats.OutputLocation # S3_OUTPUT
  /\ fetches = << ResultFile >>

\* C9: no slot is submitted twice in a pass, so a pass sends at most eight
\* submissions; a slot whose call took the fail path is not drawn, and a slot
\* that was left undrawn stays so for the rest of the pass.
C9_NoResubmission ==
  /\ [](/\ Len(submitted) <= NumSlots
        /\ \A m, n \in 1 .. Len(submitted) : submitted[m] = submitted[n] => m = n)
  /\ [][pc = "returned" /\ errors # << >> => rendered'[slot] = << >>]_vars
  /\ [][\A i \in Slots : result[i] = "norows" =>
          result'[i] = "norows" /\ rendered'[i] = << >>]_vars

C9_Witness ==
  /\ pc = "done"
  /\ Len(submitted) = 8
  /\ failedQueries > 1
  /\ \E i \in Slots : result[i] = "norows"

====
